---- MODULE Spec2Model ----
(***************************************************************************)
(* Shift allocation engine of the workforce scheduler: the three schedule  *)
(* generators (app/schedule_generator.py, app/scheduler.py and the         *)
(* /schedules/generate endpoint of app/main.py), the largest-remainder     *)
(* rounding step, and the rule validator and unavailability reassigner of  *)
(* app/schedule_service.py.                                                *)
(*                                                                         *)
(* A calendar date is a day number; day 0 is a Monday, so d % 7 is         *)
(* date.weekday() (0 = Monday .. 6 = Sunday) and indexes the weekday names *)
(* that strftime('%A') returns.  None is modelled as 0: database ids start *)
(* at 1, and the code only tests role ids for truthiness or equality.      *)
(* Each behaviour is one call of one entry point: `op` names it, Init      *)
(* draws its arguments, the action of that entry point computes `result`.  *)
(***************************************************************************)
EXTENDS Integers, Sequences, FiniteSets, TLC

VARIABLES
    op,          \* the entry point that is called
    pc,          \* "call" before the call, "done" after it returned or raised
    employees,   \* employee id -> employee record
    roles,       \* list of role records (self.roles / the roles query)
    shifts,      \* list of shift records (role_shifts / the shifts query)
    leave,       \* set of <<employee id, date>>: approved leave days
    unavail,     \* set of <<employee id, date>>: dates flagged unavailable
    dates,       \* list of the horizon's dates (dates / week_dates)
    args,        \* the remaining arguments of the call
    status,      \* what the CP-SAT backend reported (solver.Solve)
    db,          \* the rows of the schedules table
    result       \* what the call returned

vars == <<op, pc, employees, roles, shifts, leave, unavail, dates, args, status, db, result>>

(***************************************************************************)
(* Bounds of the model and constants of the program                        *)
(***************************************************************************)
HorizonDays == 7          \* length of the generated horizon, in days
MaxLeaveLen == 2          \* longest approved leave interval, in days
MaxKeys == 3              \* most keys of a raw_allocations dict
MaxWeight == 3            \* largest priority weight
MaxTarget == 12           \* largest target_total
MaxScheduled == 5         \* most days already scheduled before a validation
MaxUnavailable == 2       \* most days an employee is flagged unavailable
DaysPerWeek == 7
MaxConsecutive == 5       \* "no more than 5" of the generators
WindowLen == 6            \* the 6-day sliding window
DefaultShiftsPerWeek == 5

None == 0
EmpIds == {1, 2}
RoleIds == {1, 2}
Weekdays == 0 .. (DaysPerWeek - 1)
AllDays == Weekdays
MonToFri == 0 .. 4

Range(s) == {s[i] : i \in DOMAIN s}
Max(a, b) == IF a >= b THEN a ELSE b
Min(a, b) == IF a <= b THEN a ELSE b

RECURSIVE SumOver(_, _)
\* sum(f(x) for x in S), for a function f with S inside its domain
SumOver(S, f) ==
    IF S = {} THEN 0
    ELSE LET x == CHOOSE y \in S : TRUE IN f[x] + SumOver(S \ {x}, f)

\* date.weekday(); the index of strftime('%A') in days_of_week
Weekday(d) == d % DaysPerWeek

\* the list of dates start, start+1, .., start+n-1
DateRange(start, n) == [i \in 1 .. n |-> start + i - 1]

\* an approved leave interval [s, e] of one employee, as the set of its dates
LeaveInterval(e, s, t) == {<<e, d>> : d \in s .. t}

(***************************************************************************)
(* app/schedule_generator.py: ShiftScheduleGenerator                       *)
(***************************************************************************)
\* faulty variant (C2 must reject it): the leave lookup is made with the next day's date
_is_on_leave_next_day(employee_id, check_date) == <<employee_id, check_date + 1>> \in leave

_is_on_leave(employee_id, check_date) == <<employee_id, check_date>> \in leave

_is_unavailable(employee_id, check_date) == <<employee_id, check_date>> \in unavail

\* next((r for r in self.roles if r['id'] == role_id), None)
RoleIndex(role_id) ==
    IF \E i \in DOMAIN roles : roles[i].id = role_id
    THEN CHOOSE i \in DOMAIN roles :
            /\ roles[i].id = role_id
            /\ \A j \in DOMAIN roles : roles[j].id = role_id => i <= j
    ELSE None

\* schedule_config.get(day_name, {}).get('enabled', False) of the role with this id
\* faulty variant (C20 must reject it): any role of the list can be worked on any day
_can_work_role_on_day_any_day(role_id, d) == RoleIndex(role_id) # None
_can_work_role_on_day(role_id, d) ==
    /\ RoleIndex(role_id) # None
    /\ Weekday(d) \in roles[RoleIndex(role_id)].enabled

\* STEP 1: total shifts per role, minus leave days, floored at zero
GenRoleEmployees(role_id) == {e \in EmpIds : employees[e].role_id = role_id}

GenRoleCapacity(role_id) ==
    LET role_employees == GenRoleEmployees(role_id)
        total_shifts == SumOver(role_employees,
            [e \in EmpIds |-> employees[e].shifts_per_week * ((Len(dates) \div DaysPerWeek) + 1)])
        leave_reduction == SumOver(role_employees,
            [e \in EmpIds |-> Cardinality({d \in Range(dates) : _is_on_leave(e, d)})])
    IN Max(0, total_shifts - leave_reduction)

\* STEP 2 & 3: day_role_allocations[date_obj][role_id]
GenDayRoleAllocation(d, role_id) ==
    LET role == roles[RoleIndex(role_id)]
        role_emp_can_work == Cardinality({e \in EmpIds :
            /\ employees[e].role_id = role_id
            /\ ~_is_on_leave(e, d)
            /\ _can_work_role_on_day(role_id, d)})
    IN IF GenRoleCapacity(role_id) = 0 THEN 0
       ELSE IF Weekday(d) \notin role.enabled THEN 0
       ELSE IF role_emp_can_work > 0 THEN Min(role.required_count, role_emp_can_work)
       ELSE 0

\* day_role_allocations, as the function date -> role id -> count
GenDayRoleAllocations ==
    [d \in Range(dates) |-> [role_id \in {roles[i].id : i \in DOMAIN roles} |->
        GenDayRoleAllocation(d, role_id)]]

\* STEP 4: the decision variables assignments[emp_id][date_obj][role_id]
GenVariables ==
    {v \in [emp : EmpIds, date : Range(dates), role_id : RoleIds] :
        /\ ~_is_on_leave(v.emp, v.date)
        /\ employees[v.emp].role_id # None
        /\ employees[v.emp].role_id = v.role_id
        /\ _can_work_role_on_day(v.role_id, v.date)}

\* Constraint 1: each role has its allocation of employees per day
\* (V: the decision variables, sol: the variables the backend sets to 1)
\* faulty variant (C18 must reject it): coverage is asked for one employee fewer
GenCoverage_one_short(V, alloc, sol) ==
    \A d \in Range(dates) : \A i \in DOMAIN roles :
        LET role_id == roles[i].id
            required == alloc[d][role_id]
            day_assignments == {v \in V : v.date = d /\ v.role_id = role_id}
        IN (required > 0 /\ day_assignments # {}) =>
                Cardinality(day_assignments \cap sol) >= required - 1

GenCoverage(V, alloc, sol) ==
    \A d \in Range(dates) : \A i \in DOMAIN roles :
        LET role_id == roles[i].id
            required == alloc[d][role_id]
            day_assignments == {v \in V : v.date = d /\ v.role_id = role_id}
        IN (required > 0 /\ day_assignments # {}) =>
                Cardinality(day_assignments \cap sol) >= required

\* Constraint 2: one shift per day maximum per employee
GenOnePerDay(V, sol) ==
    \A e \in EmpIds : \A d \in Range(dates) :
        LET day_shifts == {v \in V : v.emp = e /\ v.date = d}
        IN Cardinality(day_shifts) > 1 => Cardinality(day_shifts \cap sol) <= 1

\* target_shifts = int(shifts_per_week * (len(dates) / 7.0))
GenTargetShifts(e) == (employees[e].shifts_per_week * Len(dates)) \div DaysPerWeek

GenAvailableDays(e) == Cardinality({d \in Range(dates) : ~_is_on_leave(e, d)})

\* Constraint 3: the per-employee cap on the number of shifts over the horizon
GenQuota(V, sol) ==
    \A e \in EmpIds :
        LET emp_shifts == {v \in V : v.emp = e}
        IN (GenTargetShifts(e) > 0 /\ GenAvailableDays(e) > 0 /\ emp_shifts # {}) =>
                Cardinality(emp_shifts \cap sol) <= GenTargetShifts(e)

\* the windows dates[i:i+6] for i in range(len(dates) - 5)
GenWindows ==
    {{dates[j] : j \in i .. (i + WindowLen - 1)} : i \in 1 .. (Len(dates) - (WindowLen - 1))}

\* faulty variant (C3 must reject it): the window cap is the window length, 6, instead of 5
GenConsecutive_cap6(V, sol) ==
    \A e \in EmpIds : \A w \in GenWindows :
        LET window_shifts == {v \in V : v.emp = e /\ v.date \in w}
        IN window_shifts # {} => Cardinality(window_shifts \cap sol) <= WindowLen

\* Constraint 4: no more than 5 shifts in any 6-day window
GenConsecutive(V, sol) ==
    \A e \in EmpIds : \A w \in GenWindows :
        LET window_shifts == {v \in V : v.emp = e /\ v.date \in w}
        IN window_shifts # {} => Cardinality(window_shifts \cap sol) <= MaxConsecutive

GenConstraints(V, alloc, sol) ==
    /\ GenQuota(V, sol)
    /\ GenConsecutive(V, sol)
    /\ GenOnePerDay(V, sol)
    /\ GenCoverage(V, alloc, sol)

\* the objective: every variable once, and once more when the date is not unavailable
\* faulty variant (C19 must reject it): no extra weight for available days
GenObjective_no_bonus(sol) == Cardinality(sol)
GenObjective(sol) ==
    Cardinality(sol) + Cardinality({v \in sol : ~_is_unavailable(v.emp, v.date)})

\* EXTRACT SOLUTION: schedule[date_obj][emp_id] = {'role_id': role_id, ...}
GenExtract(sol) ==
    {[date |-> v.date, employee_id |-> v.emp, role_id |-> v.role_id] :
        v \in {x \in sol : RoleIndex(x.role_id) # None}}

\* the tuple (schedule, error) a generator returns; has_schedule and has_error
\* say which of the two is not None
NoResult == [has_schedule |-> FALSE, schedule |-> {}, has_error |-> FALSE, error |-> ""]
Success(schedule) == [has_schedule |-> TRUE, schedule |-> schedule, has_error |-> FALSE, error |-> ""]
\* faulty variant (C17 must reject it): the failure also carries a schedule dict
Failure_with_schedule(error) ==
    [has_schedule |-> TRUE, schedule |-> {}, has_error |-> TRUE, error |-> error]
Failure(error) == [has_schedule |-> FALSE, schedule |-> {}, has_error |-> TRUE, error |-> error]

\* the largest objective value among the assignments in `feasible` (non-empty)
BestObjective(feasible, V) ==
    IF feasible = {} THEN 0
    ELSE CHOOSE n \in 0 .. (2 * Cardinality(V)) :
            /\ \E sol \in feasible : GenObjective(sol) = n
            /\ \A sol \in feasible : GenObjective(sol) <= n

\* generate(start_date, end_date): the backend returns any assignment that
\* satisfies the constraints (FEASIBLE), one that also maximises the objective
\* (OPTIMAL), or none (INFEASIBLE when there is none, UNKNOWN on time-out).
generate ==
    /\ op = "generate"
    /\ pc = "call"
    /\ \E V \in {GenVariables}, alloc \in {GenDayRoleAllocations} :
       \E feasible \in {{sol \in SUBSET V : GenConstraints(V, alloc, sol)}} :
          \/ \E best \in {BestObjective(feasible, V)} : \E sol \in feasible :
                /\ status' \in (IF GenObjective(sol) = best
                                THEN {"OPTIMAL", "FEASIBLE"} ELSE {"FEASIBLE"})
                /\ result' = Success(GenExtract(sol))
          \/ /\ status' \in (IF feasible = {} THEN {"INFEASIBLE", "UNKNOWN"} ELSE {"UNKNOWN"})
             /\ result' = Failure("Could not generate feasible schedule. Try adjusting constraints.")
    /\ pc' = "done"
    /\ UNCHANGED <<op, employees, roles, shifts, leave, unavail, dates, args, db>>

(***************************************************************************)
(* app/scheduler.py: ShiftSchedulerV5                                      *)
(* leave_requests and unavailability are dicts keyed f"{emp_id}-{date}";   *)
(* the code only builds such keys and tests membership, which is           *)
(* membership of <<emp_id, date>> in `leave` and `unavail`.                *)
(***************************************************************************)
\* role_shifts[role_id]: the shifts of the role, in list order
V5RoleShifts(role_id) == {i \in DOMAIN shifts : shifts[i].role_id = role_id}

\* Step 2: total shifts per role over the week, minus leave days, floored at zero
V5RoleCapacity(role_id) ==
    LET role_employees == {e \in EmpIds : employees[e].role_id = role_id}
        total_shifts == SumOver(role_employees, [e \in EmpIds |-> employees[e].shifts_per_week])
        leave_count == SumOver(role_employees,
            [e \in EmpIds |-> Cardinality({d \in Range(dates) : <<e, d>> \in leave})])
    IN Max(0, total_shifts - leave_count)

\* days_of_week[date_idx]: the weekday is taken from the position in week_dates
V5DayName(date_idx) == date_idx - 1

\* Step 3: the decision variables assignments[emp_id][date][shift['id']]
V5Variables ==
    {v \in [emp : EmpIds, date : Range(dates), shift_id : {shifts[i].id : i \in DOMAIN shifts}] :
        /\ ~(_is_on_leave(v.emp, v.date) \/ _is_unavailable(v.emp, v.date))
        /\ V5RoleShifts(employees[v.emp].role_id) # {}
        /\ \E i \in V5RoleShifts(employees[v.emp].role_id) : \E date_idx \in DOMAIN dates :
              /\ dates[date_idx] = v.date
              /\ shifts[i].id = v.shift_id
              /\ V5DayName(date_idx) \in shifts[i].enabled}

\* target_shifts = max(0, shifts_per_week - leave_days)
V5TargetShifts(e) ==
    Max(0, employees[e].shifts_per_week
            - Cardinality({d \in Range(dates) : _is_on_leave(e, d)}))

\* Constraint 1: each employee works exactly the target number of shifts
V5ExactShifts(V, sol) ==
    \A e \in EmpIds :
        LET week_shifts == {v \in V : v.emp = e}
        IN week_shifts # {} =>
              IF V5TargetShifts(e) > 0
              THEN Cardinality(week_shifts \cap sol) = V5TargetShifts(e)
              ELSE Cardinality(week_shifts \cap sol) = 0

\* faulty variant (C1 must reject it): the one-per-day constraint is added only from three shifts on
V5OnePerDay_from3(V, sol) ==
    \A e \in EmpIds : \A d \in Range(dates) :
        LET day_shifts == {v \in V : v.emp = e /\ v.date = d}
        IN Cardinality(day_shifts) > 2 => Cardinality(day_shifts \cap sol) <= 1

\* Constraint 2: one shift per day maximum
V5OnePerDay(V, sol) ==
    \A e \in EmpIds : \A d \in Range(dates) :
        LET day_shifts == {v \in V : v.emp = e /\ v.date = d}
        IN Cardinality(day_shifts) > 1 => Cardinality(day_shifts \cap sol) <= 1

V5Constraints(V, sol) ==
    /\ V5ExactShifts(V, sol)
    /\ V5OnePerDay(V, sol)

\* _extract_solution: schedule[date][emp_id] is the list of the shifts set to 1
_extract_solution(sol) ==
    {[date |-> v.date, employee_id |-> v.emp, shift_id |-> v.shift_id] :
        v \in {x \in sol : \E i \in DOMAIN shifts : shifts[i].id = x.shift_id}}

\* generate_schedule(): the objective counts the assigned variables
generate_schedule ==
    /\ op = "generate_schedule"
    /\ pc = "call"
    /\ \E V \in {V5Variables} :
       \E feasible \in {{sol \in SUBSET V : V5Constraints(V, sol)}} :
          \/ \E best \in {IF feasible = {} THEN 0
                          ELSE CHOOSE n \in 0 .. Cardinality(V) :
                                /\ \E sol \in feasible : Cardinality(sol) = n
                                /\ \A sol \in feasible : Cardinality(sol) <= n} :
             \E sol \in feasible :
                /\ status' \in (IF Cardinality(sol) = best
                                THEN {"OPTIMAL", "FEASIBLE"} ELSE {"FEASIBLE"})
                /\ result' = Success(_extract_solution(sol))
          \/ /\ status' \in (IF feasible = {} THEN {"INFEASIBLE", "UNKNOWN"} ELSE {"UNKNOWN"})
             /\ result' = Failure("Cannot generate schedule. Please review constraints.")
    /\ pc' = "done"
    /\ UNCHANGED <<op, employees, roles, shifts, leave, unavail, dates, args, db>>

(***************************************************************************)
(* app/main.py: POST /schedules/generate                                   *)
(* A time of day 'HH:MM' is its minute of the day; hours are compared in   *)
(* minutes.  A Schedule row is a record of its columns.                    *)
(***************************************************************************)
NoTime == 0 - 1

\* the weekdays a shift runs on after the schedule_config normalisation: an
\* empty config enables every day, a missing day or 'enabled' key disables it
EpEnabledDays(shift) == IF ~shift.has_config THEN AllDays ELSE shift.enabled

\* the shift record after the normalisation loop: the loop assigns a full
\* schedule_config to a shift that has none, and writes the missing days into
\* the dict of a shift that has one (the enabled days stay as they were)
EpNormalised(shift) == [shift EXCEPT !.has_config = TRUE, !.enabled = EpEnabledDays(shift)]

\* is_eligible = (emp.role_id is None) or (emp.role_id == shift.role_id)
EpEligible(e, shift) ==
    employees[e].role_id = None \/ employees[e].role_id = shift.role_id

\* the approved LeaveRequest query for (emp, current_date)
EpOnLeave(e, d) == <<e, d>> \in leave

\* the existing_today query: any row of the employee on the date
EpExistingToday(rows, e, d) == \E r \in rows : r.employee_id = e /\ r.date = d

EpNextId(rows) ==
    IF rows = {} THEN 1
    ELSE 1 + (CHOOSE n \in {r.id : r \in rows} : \A r \in rows : r.id <= n)

\* the rows of the employee in the Monday-to-Sunday week of the date
EpWeekRows(rows, e, d) ==
    LET week_start == d - Weekday(d)
        week_end == week_start + 6
    IN {r \in rows : r.employee_id = e /\ r.date >= week_start /\ r.date <= week_end}

\* max_consecutive: the longest run of calendar-consecutive dates in week_dates
EpMaxConsecutive(week_dates) ==
    CHOOSE n \in 1 .. Cardinality(week_dates) :
        /\ \E a \in week_dates : \A k \in 0 .. (n - 1) : (a + k) \in week_dates
        /\ ~\E a \in week_dates : \A k \in 0 .. n : (a + k) \in week_dates

\* break_minutes of the role a row points to (0 when the role is gone)
EpBreakMinutes(role_id) ==
    IF RoleIndex(role_id) = None THEN 0 ELSE roles[RoleIndex(role_id)].break_minutes

\* work minutes of an existing row: (end - start) minus the break of its role;
\* a row without times (a leave row) counts nothing
EpRowWorkMinutes(r) ==
    IF r.start_time = NoTime \/ r.end_time = NoTime THEN 0
    ELSE (r.end_time - r.start_time) - EpBreakMinutes(r.role_id)

EpScheduleRow(rows, dept, e, shift, d, st) ==
    [id |-> EpNextId(rows), department_id |-> dept, employee_id |-> e,
     role_id |-> shift.role_id, shift_id |-> shift.id, date |-> d,
     start_time |-> IF st = "leave" THEN NoTime ELSE shift.start_time,
     end_time |-> IF st = "leave" THEN NoTime ELSE shift.end_time,
     status |-> st]

\* one pass of the loop body for (current_date, shift, emp); acc holds the rows,
\* schedules_created, assigned_count, overtime_warnings and whether the loop broke
EpEmployeeStep(acc, dept, d, shift, e) ==
    LET rows == acc.rows
        week_rows == EpWeekRows(rows, e, d)
        week_dates == {r.date : r \in week_rows} \cup {d}
        existing_minutes == SumOver(week_rows, [r \in week_rows |-> EpRowWorkMinutes(r)])
        existing_minutes_today ==
            SumOver({r \in week_rows : r.date = d}, [r \in week_rows |-> EpRowWorkMinutes(r)])
        total_shift_minutes == shift.end_time - shift.start_time
        work_minutes == total_shift_minutes - EpBreakMinutes(shift.role_id)
        daily_max == IF employees[e].daily_max_hours = None THEN 8
                     ELSE employees[e].daily_max_hours
        has_overtime == existing_minutes_today + total_shift_minutes > 9 * 60
        overtime == IF has_overtime THEN acc.overtime \cup {[employee_id |-> e, date |-> d]}
                    ELSE acc.overtime
    IN IF EpOnLeave(e, d)
       THEN IF ~EpExistingToday(rows, e, d)
            THEN [acc EXCEPT !.rows = rows \cup {EpScheduleRow(rows, dept, e, shift, d, "leave")},
                             !.created = @ + 1]
            ELSE acc
       ELSE IF EpExistingToday(rows, e, d) THEN acc
       ELSE IF EpMaxConsecutive(week_dates) > 5 THEN acc
       ELSE IF /\ existing_minutes + work_minutes <= employees[e].weekly_hours * 60
               /\ existing_minutes_today + work_minutes <= daily_max * 60
            THEN [acc EXCEPT !.rows = rows \cup {EpScheduleRow(rows, dept, e, shift, d, "scheduled")},
                             !.created = @ + 1,
                             !.assigned = @ + 1,
                             !.overtime = overtime,
                             !.broke = (acc.assigned + 1 >= shift.max_emp)]
            ELSE [acc EXCEPT !.overtime = overtime]

RECURSIVE EpEmployees(_, _, _, _, _)
\* for emp in eligible_for_shift[shift.id], until the break
EpEmployees(acc, dept, d, shift, eligible) ==
    IF eligible = <<>> \/ acc.broke THEN acc
    ELSE EpEmployees(EpEmployeeStep(acc, dept, d, shift, Head(eligible)), dept, d, shift,
                     Tail(eligible))

\* the body of `for shift in shifts` on one date
EpShiftStep(acc, dept, d, shift, emp_order) ==
    IF Weekday(d) \notin EpEnabledDays(shift) THEN acc
    ELSE LET eligible == SelectSeq(emp_order, LAMBDA e : EpEligible(e, shift))
             out == EpEmployees([acc EXCEPT !.assigned = 0, !.broke = FALSE], dept, d, shift,
                                eligible)
         IN IF out.assigned < shift.min_emp
            THEN [out EXCEPT !.feedback = @ \cup {[date |-> d, shift_id |-> shift.id,
                                                   assigned |-> out.assigned]}]
            ELSE out

RECURSIVE EpShifts(_, _, _, _, _)
EpShifts(acc, dept, d, shift_order, emp_order) ==
    IF shift_order = <<>> THEN acc
    ELSE EpShifts(EpShiftStep(acc, dept, d, shifts[Head(shift_order)], emp_order), dept, d,
                  Tail(shift_order), emp_order)

RECURSIVE EpDates(_, _, _, _, _, _)
\* while current_date <= end_date
EpDates(acc, dept, current_date, end_date, shift_order, emp_order) ==
    IF current_date > end_date THEN acc
    ELSE EpDates(EpShifts(acc, dept, current_date, shift_order, emp_order), dept,
                 current_date + 1, end_date, shift_order, emp_order)

\* the orders in which a query without ORDER BY may return the elements of S
Orders(S) ==
    {o \in [1 .. Cardinality(S) -> S] : \A i, j \in DOMAIN o : i # j => o[i] # o[j]}

EpResponse(success, created, confirm, feedback, overtime) ==
    [success |-> success, schedules_created |-> created, requires_confirmation |-> confirm,
     feedback |-> feedback, overtime_warnings |-> overtime]

\* generate_schedules(start_date, end_date, regenerate)
\* faulty variant (C28 must reject it): the query leaves out the department filter
EpExistingSchedules_any_department(rows, department_id, start_date, end_date) ==
    {r \in rows : r.date >= start_date /\ r.date <= end_date}

\* the existing_schedules query, which the delete statement repeats
EpExistingSchedules(rows, department_id, start_date, end_date) ==
    {r \in rows : /\ r.department_id = department_id
                  /\ r.date >= start_date
                  /\ r.date <= end_date}

generate_schedules ==
    /\ op = "generate_schedules"
    /\ pc = "call"
    /\ LET dept == args.department_id
           existing_schedules ==
               EpExistingSchedules(db, dept, args.start_date, args.end_date)
       IN IF existing_schedules # {} /\ ~args.regenerate
          THEN /\ db' = db
               /\ shifts' = shifts
               /\ result' = EpResponse(FALSE, 0, TRUE, {}, {})
          ELSE \E cleared \in {db \ existing_schedules} :
               /\ shifts' = IF roles = <<>> THEN shifts
                            ELSE [i \in DOMAIN shifts |-> EpNormalised(shifts[i])]
               /\ IF roles = <<>> \/ shifts = <<>> \/ DOMAIN employees = {}
                  THEN /\ db' = cleared
                       /\ result' = EpResponse(TRUE, 0, FALSE, {}, {})
                  ELSE \E shift_order \in Orders(DOMAIN shifts),
                          emp_order \in Orders(DOMAIN employees) :
                       \E out \in {EpDates([rows |-> cleared, created |-> 0, assigned |-> 0,
                                            overtime |-> {}, broke |-> FALSE, feedback |-> {}],
                                           dept, args.start_date, args.end_date,
                                           shift_order, emp_order)} :
                           /\ db' = out.rows
                           /\ result' = EpResponse(TRUE, out.created, FALSE, out.feedback,
                                                   out.overtime)
    /\ pc' = "done"
    /\ UNCHANGED <<op, employees, roles, leave, unavail, dates, args, status>>

(***************************************************************************)
(* _round_allocations (schedule_generator.py and scheduler.py)             *)
(* raw_allocations is an ordered dict of fractions; the model holds it as  *)
(* the list of numerators over one common denominator den > 0, in the      *)
(* dict's order, and the result as the list of integers in the same order. *)
(***************************************************************************)
RECURSIVE SeqSum(_)
SeqSum(q) == IF q = <<>> THEN 0 ELSE Head(q) + SeqSum(Tail(q))

\* faulty variant (C21 must reject it): the sort is ascending, so the keys with
\* the smallest remainders come first
RemainderRank_ascending(remainders, i) ==
    1 + Cardinality({j \in DOMAIN remainders :
            \/ remainders[j] < remainders[i]
            \/ (remainders[j] = remainders[i] /\ j < i)})

\* the position of key i in sorted(remainders.items(), key=remainder, reverse=True):
\* Python's sort is stable, also with reverse=True
RemainderRank(remainders, i) ==
    1 + Cardinality({j \in DOMAIN remainders :
            \/ remainders[j] > remainders[i]
            \/ (remainders[j] = remainders[i] /\ j < i)})

\* faulty variant (C4 must reject it): the loop hands out one unit fewer than units_to_add
_round_allocations_one_short(raw, den, target_total) ==
    LET floored == [i \in DOMAIN raw |-> raw[i] \div den]
        remainders == [i \in DOMAIN raw |-> raw[i] % den]
        units_to_add == target_total - SeqSum(floored)
        k == Min(Max(0, units_to_add - 1), Len(raw))
    IN [i \in DOMAIN raw |->
            floored[i] + (IF RemainderRank(remainders, i) <= k THEN 1 ELSE 0)]

\* ShiftScheduleGenerator._round_allocations
_round_allocations(raw, den, target_total) ==
    LET floored == [i \in DOMAIN raw |-> raw[i] \div den]
        remainders == [i \in DOMAIN raw |-> raw[i] % den]
        units_to_add == target_total - SeqSum(floored)
        k == Min(Max(0, units_to_add), Len(raw))
    IN [i \in DOMAIN raw |->
            floored[i] + (IF RemainderRank(remainders, i) <= k THEN 1 ELSE 0)]

\* ShiftSchedulerV5._round_allocations: range(min(units_to_add, len(...)))
V5_round_allocations(raw, den, target_total) ==
    LET floored == [i \in DOMAIN raw |-> raw[i] \div den]
        remainders == [i \in DOMAIN raw |-> raw[i] % den]
        units_to_add == target_total - SeqSum(floored)
        k == Min(units_to_add, Len(raw))
    IN [i \in DOMAIN raw |->
            floored[i] + (IF RemainderRank(remainders, i) <= k THEN 1 ELSE 0)]

\* the weighted shares target * w / sum(w) of a weight list, as numerators over
\* the denominator sum(w); with no weight or a zero total every share is 0
WeightedShares(weights, target_total) ==
    IF SeqSum(weights) = 0
    THEN [raw |-> [i \in DOMAIN weights |-> 0], den |-> 1]
    ELSE [raw |-> [i \in DOMAIN weights |-> target_total * weights[i]], den |-> SeqSum(weights)]

round_allocations_call ==
    /\ op \in {"_round_allocations", "V5._round_allocations"}
    /\ pc = "call"
    /\ result' = IF op = "_round_allocations"
                 THEN _round_allocations(args.raw, args.den, args.target_total)
                 ELSE V5_round_allocations(args.raw, args.den, args.target_total)
    /\ pc' = "done"
    /\ UNCHANGED <<op, employees, roles, shifts, leave, unavail, dates, args, status, db>>

(***************************************************************************)
(* app/schedule_service.py: ScheduleValidator and the reassigner           *)
(* A date string is [day, iso]: the day it names and whether it is written *)
(* 'YYYY-MM-DD' (iso) or without dashes.  The key f"{emp_id}-{date}" of    *)
(* leave_requests and unavailability is [emp, date].                       *)
(***************************************************************************)
DateStr(d, iso) == [day |-> d, iso |-> iso]
Key(e, date) == [emp |-> e, date |-> date]

\* _check_consecutive_shift_limit: "For now, return True"
_check_consecutive_shift_limit(employee_id, date, schedule) == TRUE

\* _check_weekend_restriction: weekday() >= 5 needs role['weekend_required']
_check_weekend_restriction(role, date) ==
    ~(Weekday(date.day) >= 5 /\ ~role.weekend_required)

\* SHIFT_DURATION_REQUIRING_BREAK = 4 * 60, in minutes
SHIFT_DURATION_REQUIRING_BREAK == 240
MinutesPerDay == 1440

\* _check_shift_duration_break: a role dict's start_time and end_time are
\* minutes of the day; an end before the start is past midnight.  No method of
\* the validator calls it.
_check_shift_duration_break(role) ==
    LET end_min == IF role.end_time < role.start_time
                   THEN role.end_time + MinutesPerDay ELSE role.end_time
        duration == end_min - role.start_time
    IN IF duration > SHIFT_DURATION_REQUIRING_BREAK THEN role.break_minutes > 0 ELSE TRUE

ValLeave == "LEAVE: Employee is on approved leave this day"
ValConsecutive == "5-SHIFT-LIMIT: Would exceed maximum 5 consecutive shifts"
ValWeekend == "WEEKEND-RESTRICT: Weekend work not allowed for this role (enable 'weekend_required')"
ValUnavailable == "UNAVAIL-WARNING: Employee marked unavailable - shift can be auto-reassigned"

Returned(valid, messages) == [raised |-> "", valid |-> valid, messages |-> messages]
Raised(exception) == [raised |-> exception, valid |-> FALSE, messages |-> <<>>]

\* faulty variant (C7 must reject it): the unavailability branch returns False with its warning
validate_assignment_rejects_unavailable(employee_id, role_id, date, schedule, leave_requests, unavailability) ==
    IF Key(employee_id, date) \in leave_requests THEN Returned(FALSE, <<ValLeave>>)
    ELSE IF ~_check_consecutive_shift_limit(employee_id, date, schedule)
         THEN Returned(FALSE, <<ValConsecutive>>)
    ELSE IF RoleIndex(role_id) # None /\ ~date.iso THEN Raised("ValueError")
    ELSE IF RoleIndex(role_id) # None
            /\ ~_check_weekend_restriction(roles[RoleIndex(role_id)], date)
         THEN Returned(FALSE, <<ValWeekend>>)
    ELSE IF Key(employee_id, date) \in unavailability
         THEN Returned(FALSE, <<ValUnavailable>>)
    ELSE Returned(TRUE, <<>>)

\* faulty variant (C22 must reject it): the validator remembers that it warned
\* and gives the warning on the first call only
validate_assignment_warns_once(employee_id, role_id, date, schedule, leave_requests, unavailability) ==
    IF Key(employee_id, date) \in leave_requests THEN Returned(FALSE, <<ValLeave>>)
    ELSE IF ~_check_consecutive_shift_limit(employee_id, date, schedule)
         THEN Returned(FALSE, <<ValConsecutive>>)
    ELSE IF RoleIndex(role_id) # None /\ ~date.iso THEN Raised("ValueError")
    ELSE IF RoleIndex(role_id) # None
            /\ ~_check_weekend_restriction(roles[RoleIndex(role_id)], date)
         THEN Returned(FALSE, <<ValWeekend>>)
    ELSE IF Key(employee_id, date) \in unavailability /\ pc = "call"
         THEN Returned(TRUE, <<ValUnavailable>>)
    ELSE Returned(TRUE, <<>>)

\* ScheduleValidator.validate_assignment; strptime(date, '%Y-%m-%d') in the
\* weekend check raises ValueError on a date that is not written that way
validate_assignment(employee_id, role_id, date, schedule, leave_requests, unavailability) ==
    IF Key(employee_id, date) \in leave_requests THEN Returned(FALSE, <<ValLeave>>)
    ELSE IF ~_check_consecutive_shift_limit(employee_id, date, schedule)
         THEN Returned(FALSE, <<ValConsecutive>>)
    ELSE IF RoleIndex(role_id) # None /\ ~date.iso THEN Raised("ValueError")
    ELSE IF RoleIndex(role_id) # None
            /\ ~_check_weekend_restriction(roles[RoleIndex(role_id)], date)
         THEN Returned(FALSE, <<ValWeekend>>)
    ELSE IF Key(employee_id, date) \in unavailability
         THEN Returned(TRUE, <<ValUnavailable>>)
    ELSE Returned(TRUE, <<>>)

\* validate_shift_assignment(employee_id, role_id, date, employees, roles,
\* schedule, leave_requests, unavailability)
validate_shift_assignment ==
    /\ op = "validate_shift_assignment"
    /\ pc = "call"
    /\ result' = validate_assignment(args.employee_id, args.role_id, args.date, args.schedule,
                                     args.leave_requests, args.unavailability)
    /\ pc' = "done"
    /\ UNCHANGED <<op, employees, roles, shifts, leave, unavail, dates, args, status, db>>

\* a second call of validate_shift_assignment with the arguments the first call
\* was given, which it has left as they were; result holds both results
validate_shift_assignment_again ==
    /\ op = "validate_shift_assignment"
    /\ pc = "done"
    /\ result' = [first |-> result,
                  second |-> validate_assignment(args.employee_id, args.role_id, args.date,
                                                 args.schedule, args.leave_requests,
                                                 args.unavailability)]
    /\ pc' = "again"
    /\ UNCHANGED <<op, employees, roles, shifts, leave, unavail, dates, args, status, db>>

\* str.split('-') of a key gives the employee id and the parts of the date:
\* three parts for 'YYYY-MM-DD', one for a date without dashes
SplitParts(key) == 1 + (IF key.date.iso THEN 3 ELSE 1)

\* `date in schedule and emp_id in schedule[date]`
ReInSchedule(schedule, emp_id, date) ==
    \E a \in schedule : a.date = date /\ a.emp = emp_id

\* the test on an alternative day; alt_date_str is alt_date.strftime('%Y-%m-%d')
\* and is no key of unavailability, whose keys all start with an employee id
ReAlternativeOk(emp_id, alt_date_str, leave_requests, unavailability) ==
    /\ \/ alt_date_str \notin unavailability
       \/ Key(emp_id, alt_date_str) \notin unavailability
    /\ Key(emp_id, alt_date_str) \notin leave_requests

\* the alternative day the inner loop stops at: the first entry of week_dates
\* that passes the test, None when no entry does
ReFirstAlternative(emp_id, leave_requests, unavailability) ==
    LET ok == {i \in DOMAIN dates :
                ReAlternativeOk(emp_id, DateStr(dates[i], TRUE), leave_requests, unavailability)}
    IN IF ok = {} THEN None ELSE CHOOSE i \in ok : \A j \in ok : i <= j

\* _handle_unavailability_reassignments(schedule, leave_requests, unavailability):
\* the feedback list it returns, the exception it raises, and the schedule
\* dict afterwards
_handle_unavailability_reassignments(schedule, leave_requests, unavailability) ==
    LET unpackable == {k \in unavailability : SplitParts(k) = 2}
        hits == {k \in unpackable : ReInSchedule(schedule, k.emp, k.date)}
        found == {k \in hits : ReFirstAlternative(k.emp, leave_requests, unavailability) # None}
        reassigned == {[kind |-> "Reassigned", emp |-> k.emp, from |-> k.date,
                        to |-> DateStr(dates[ReFirstAlternative(k.emp, leave_requests,
                                                                 unavailability)], TRUE)] :
                       k \in found}
    IN IF unpackable # unavailability
       THEN [raised |-> "ValueError", feedback |-> {}, schedule |-> schedule]
       ELSE IF hits # {} /\ dates # <<>> /\ ~args.week_dates_are_dates
       THEN [raised |-> "AttributeError", feedback |-> {}, schedule |-> schedule]
       ELSE [raised |-> "",
             feedback |-> IF reassigned = {} THEN {[kind |-> "NoneNeeded"]} ELSE reassigned,
             schedule |-> schedule]

handle_unavailability_reassignments ==
    /\ op = "_handle_unavailability_reassignments"
    /\ pc = "call"
    /\ result' = _handle_unavailability_reassignments(args.schedule, args.leave_requests,
                                                      args.unavailability)
    /\ pc' = "done"
    /\ UNCHANGED <<op, employees, roles, shifts, leave, unavail, dates, args, status, db>>

(***************************************************************************)
(* Arguments of the calls                                                  *)
(***************************************************************************)
SpwValues == {DefaultShiftsPerWeek, DaysPerWeek}

\* an employee: role_id (None: flexible), shifts_per_week, weekly_hours, daily_max_hours
Employee(role_id, spw) ==
    [role_id |-> role_id, shifts_per_week |-> spw, weekly_hours |-> 40, daily_max_hours |-> 8]

\* a role: its id, the weekdays its schedule_config enables, its required_count
Role(id, enabled, required_count) ==
    [id |-> id, enabled |-> enabled, required_count |-> required_count, break_minutes |-> 60]

\* no leave, or one approved interval of at most MaxLeaveLen days in the horizon
LeaveChoices(e, starts, last) ==
    {{}} \cup UNION {{LeaveInterval(e, s, t) : t \in s .. Min(last, s + MaxLeaveLen - 1)} :
                        s \in starts}

InitGenerate ==
    /\ op = "generate"
    /\ pc = "call"
    /\ dates = DateRange(0, HorizonDays)
    /\ \E r2 \in {None} \cup RoleIds, s1 \in SpwValues :
            employees = (1 :> Employee(1, s1)) @@ (2 :> Employee(r2, DefaultShiftsPerWeek))
    /\ \E en \in {AllDays, MonToFri}, rc \in 1 .. 2 :
            roles = <<Role(1, en, rc), Role(2, {0, 1, 2}, 1)>>
    /\ shifts = <<>>
    /\ \E l1 \in LeaveChoices(1, {0, 3}, HorizonDays - 1) : leave = l1
    /\ unavail \in {{}, {<<1, 2>>}}
    /\ args = <<>>
    /\ status = "NONE"
    /\ db = {}
    /\ result = NoResult

\* a shift: its id, its role, the weekdays its schedule_config enables, its time
\* window in minutes of the day, and min_emp / max_emp
Shift(id, role_id, enabled, start_time, end_time, min_emp, max_emp) ==
    [id |-> id, role_id |-> role_id, has_config |-> TRUE, enabled |-> enabled,
     start_time |-> start_time, end_time |-> end_time, min_emp |-> min_emp, max_emp |-> max_emp]

\* a shift whose schedule_config is empty or missing
ShiftNoConfig(id, role_id, start_time, end_time, min_emp, max_emp) ==
    [id |-> id, role_id |-> role_id, has_config |-> FALSE, enabled |-> {},
     start_time |-> start_time, end_time |-> end_time, min_emp |-> min_emp, max_emp |-> max_emp]

InitV5 ==
    /\ op = "generate_schedule"
    /\ pc = "call"
    /\ dates = DateRange(0, DaysPerWeek)
    /\ \E r2 \in {None, 2}, s1 \in SpwValues :
            employees = (1 :> Employee(1, s1)) @@ (2 :> Employee(r2, 3))
    /\ roles = <<Role(1, AllDays, 1), Role(2, AllDays, 1)>>
    /\ \E en \in {{0, 1}, {}} :
            shifts = <<Shift(1, 1, AllDays, 540, 1020, 1, 2), Shift(2, 1, en, 1020, 1320, 1, 2),
                       Shift(3, 2, {0, 1, 2, 3}, 540, 1020, 1, 2)>>
    /\ \E l1 \in LeaveChoices(1, {0, 3}, DaysPerWeek - 1) : leave = l1
    /\ unavail \in {{}, {<<1, 2>>}}
    /\ args = <<>>
    /\ status = "NONE"
    /\ db = {}
    /\ result = NoResult

\* an employee of the endpoint, with its hour caps
EpEmployee(role_id, weekly_hours) ==
    [role_id |-> role_id, shifts_per_week |-> DefaultShiftsPerWeek,
     weekly_hours |-> weekly_hours, daily_max_hours |-> 8]

\* a row the table holds before the call
ExistingRow(id, dept, e, d) ==
    [id |-> id, department_id |-> dept, employee_id |-> e, role_id |-> 1, shift_id |-> 1,
     date |-> d, start_time |-> 540, end_time |-> 1020, status |-> "scheduled"]

\* rows of earlier calls: one of the manager's department inside the range, one
\* of another department
ExistingRows == {ExistingRow(101, 1, 1, 1), ExistingRow(102, 2, 2, 2)}

InitEndpoint ==
    /\ op = "generate_schedules"
    /\ pc = "call"
    /\ \E start_date \in {0, 3}, rg \in BOOLEAN :
            /\ dates = DateRange(start_date, HorizonDays)
            /\ args = [department_id |-> 1, start_date |-> start_date,
                       end_date |-> start_date + HorizonDays - 1, regenerate |-> rg]
    /\ \E r1 \in {None, 1}, r2 \in {None, 1, 2}, w1 \in {40, 21} :
            employees = (1 :> EpEmployee(r1, w1)) @@ (2 :> EpEmployee(r2, 40))
    /\ roles = <<Role(1, AllDays, 1), Role(2, AllDays, 1)>>
    /\ \E m \in 0 .. 2 :
         shifts \in {<<Shift(1, 1, MonToFri, 540, 1020, 1, m), Shift(2, 2, AllDays, 600, 960, 1, 1)>>,
                     <<ShiftNoConfig(1, 1, 540, 1020, 1, m), Shift(2, 2, {5, 6}, 600, 960, 1, 1)>>,
                     <<Shift(1, 1, MonToFri, 1320, 360, 1, m), Shift(2, 2, {5, 6}, 600, 960, 1, 1)>>}
    /\ \E l1 \in LeaveChoices(1, {0, 3}, HorizonDays - 1) : leave = l1
    /\ unavail = {}
    /\ status = "NONE"
    /\ db \in {{}} \cup {{r} : r \in ExistingRows}
    /\ result = NoResult

\* weight lists of at most MaxKeys weights in 0 .. MaxWeight
WeightLists == UNION {[1 .. n -> 0 .. MaxWeight] : n \in 0 .. MaxKeys}

InitRound ==
    /\ op \in {"_round_allocations", "V5._round_allocations"}
    /\ pc = "call"
    /\ dates = <<>>
    /\ employees = <<>>
    /\ roles = <<>>
    /\ shifts = <<>>
    /\ leave = {}
    /\ unavail = {}
    /\ \E weights \in WeightLists, target_total \in 0 .. MaxTarget :
            args = [weights |-> weights, target_total |-> target_total,
                    raw |-> WeightedShares(weights, target_total).raw,
                    den |-> WeightedShares(weights, target_total).den]
    /\ status = "NONE"
    /\ db = {}
    /\ result = <<>>

\* a role dict of the validator
ValRole(id, weekend_required) == [id |-> id, weekend_required |-> weekend_required]

\* a role dict of the validator with its work window and break
ValTimedRole(id, weekend_required, window) ==
    [id |-> id, weekend_required |-> weekend_required, start_time |-> window[1],
     end_time |-> window[2], break_minutes |-> window[3]]

\* work windows <<start_time, end_time, break_minutes>>: 09:00-17:00 with and
\* without a break, 09:00-13:00 (exactly 4 hours) and 22:00-06:00 without one
ValWindows == {<<540, 1020, 60>>, <<540, 1020, 0>>, <<540, 780, 0>>, <<1320, 360, 0>>}

\* an entry schedule[date][emp]
Assigned(e, date, role_id) == [date |-> date, emp |-> e, role_id |-> role_id]

\* no key, or one key of an employee on one of a few days
KeyChoices(days, iso) == {{}} \cup {{Key(e, DateStr(d, iso))} : e \in EmpIds, d \in days}

InitValidate ==
    /\ op = "validate_shift_assignment"
    /\ pc = "call"
    /\ dates = DateRange(0, DaysPerWeek)
    /\ employees = (1 :> Employee(1, DefaultShiftsPerWeek)) @@ (2 :> Employee(2, DefaultShiftsPerWeek))
    /\ \E w \in ValWindows :
            roles = <<ValTimedRole(1, TRUE, w), ValTimedRole(2, FALSE, w)>>
    /\ shifts = <<>>
    /\ leave = {}
    /\ unavail = {}
    /\ \E e \in EmpIds, r \in 1 .. 3, d \in Range(dates), iso \in BOOLEAN,
          n \in 0 .. MaxScheduled :
         \E lv \in KeyChoices({2, 5}, iso), un \in KeyChoices({2, 5}, iso) :
            args = [employee_id |-> e, role_id |-> r, date |-> DateStr(d, iso),
                    schedule |-> {Assigned(e, DateStr(x - 1, iso), r) : x \in 1 .. n},
                    leave_requests |-> lv, unavailability |-> un]
    /\ status = "NONE"
    /\ db = {}
    /\ result = NoResult

\* the sets of at most n days of the week
DaySets(n) == {S \in SUBSET Range(DateRange(0, DaysPerWeek)) : Cardinality(S) <= n}

\* no day, or a run of consecutive days of the week
DayRuns == {{}} \cup {a .. b : a, b \in Range(DateRange(0, DaysPerWeek))}

InitReassign ==
    /\ op = "_handle_unavailability_reassignments"
    /\ pc = "call"
    /\ dates = DateRange(0, DaysPerWeek)
    /\ employees = (1 :> Employee(1, DefaultShiftsPerWeek)) @@ (2 :> Employee(2, DefaultShiftsPerWeek))
    /\ roles = <<ValRole(1, TRUE), ValRole(2, FALSE)>>
    /\ shifts = <<>>
    /\ leave = {}
    /\ unavail = {}
    /\ \E u_iso \in BOOLEAN, l_iso \in BOOLEAN, wd \in BOOLEAN,
          U \in DaySets(MaxUnavailable), L \in LeaveChoices(1, {0, 3}, DaysPerWeek - 1),
          A \in DayRuns :
            args = [week_dates_are_dates |-> wd,
                    schedule |-> {Assigned(1, DateStr(d, u_iso), 1) : d \in A}
                                    \cup {Assigned(2, DateStr(1, u_iso), 2)},
                    leave_requests |-> {Key(k[1], DateStr(k[2], l_iso)) : k \in L},
                    unavailability |-> {Key(1, DateStr(d, u_iso)) : d \in U}]
    /\ status = "NONE"
    /\ db = {}
    /\ result = NoResult

SpecGenerate == InitGenerate /\ [][generate]_vars

SpecV5 == InitV5 /\ [][generate_schedule]_vars

SpecEndpoint == InitEndpoint /\ [][generate_schedules]_vars

SpecRound == InitRound /\ [][round_allocations_call]_vars

SpecValidate == InitValidate /\ [][validate_shift_assignment]_vars

\* two calls of the validator in a row
SpecValidateTwice ==
    InitValidate /\ [][validate_shift_assignment \/ validate_shift_assignment_again]_vars

SpecReassign == InitReassign /\ [][handle_unavailability_reassignments]_vars

\* one call of one of the three full-horizon generators
SpecGenerators ==
    (InitGenerate \/ InitV5 \/ InitEndpoint)
        /\ [][generate \/ generate_schedule \/ generate_schedules]_vars

(***************************************************************************)
(* AttendanceService.calculate_night_work_hours (attendance_service.py)    *)
(* A time "HH:MM" is its minute of the day, a datetime is in minutes from  *)
(* today's midnight, and the returned float, which round(x, 2) gives two   *)
(* decimals, is held in hundredths of an hour.                             *)
(***************************************************************************)
TimeSlotsPerHour == 2      \* check-in and check-out times are drawn from this grid
NightStart == 1320         \* '22:00'
NightEnd == 360            \* '06:00'

\* round(night_minutes / 60, 2) in hundredths: 100 * m / 60 = 5m / 3 is never
\* halfway between two integers, so the float rounds to the nearest one
RoundHours(minutes) == (10 * minutes + 3) \div 6

calculate_night_work_hours(in_time, out_time) ==
    LET in_dt == in_time
        out_dt == IF out_time <= in_time THEN MinutesPerDay + out_time ELSE out_time
        night_start_dt == NightStart
        night_end_dt == MinutesPerDay + NightEnd
        overlap_start == Max(in_dt, night_start_dt)
        overlap_end == Min(out_dt, night_end_dt)
    IN IF overlap_end > overlap_start THEN RoundHours(overlap_end - overlap_start) ELSE 0

night_work_hours_call ==
    /\ op = "calculate_night_work_hours"
    /\ pc = "call"
    /\ result' = calculate_night_work_hours(args.in_time, args.out_time)
    /\ pc' = "done"
    /\ UNCHANGED <<op, employees, roles, shifts, leave, unavail, dates, args, status, db>>

\* the times "HH:MM" on the grid
ClockTimes == {k * (60 \div TimeSlotsPerHour) : k \in 0 .. (24 * TimeSlotsPerHour - 1)}

InitNight ==
    /\ op = "calculate_night_work_hours"
    /\ pc = "call"
    /\ dates = <<>>
    /\ employees = <<>>
    /\ roles = <<>>
    /\ shifts = <<>>
    /\ leave = {}
    /\ unavail = {}
    /\ \E in_time \in ClockTimes, out_time \in ClockTimes :
            args = [in_time |-> in_time, out_time |-> out_time]
    /\ status = "NONE"
    /\ db = {}
    /\ result = 0

SpecNight == InitNight /\ [][night_work_hours_call]_vars

(***************************************************************************)
(* POST /schedules and PUT /schedules/{schedule_id} (main.py): the manual  *)
(* edits of a manager.  A request is answered by its HTTP status code and  *)
(* the rule its detail names; db holds the Schedule rows.                  *)
(***************************************************************************)
\* shift_hours, in minutes: end - start, or 24 - start + end when the end is not
\* after the start
ShiftMinutes(start_time, end_time) ==
    IF end_time > start_time THEN end_time - start_time
    ELSE MinutesPerDay - start_time + end_time

\* the summed hours of rows, as the two loops over existing rows compute them
RowsMinutes(rows) == SumOver(rows, [r \in rows |-> ShiftMinutes(r.start_time, r.end_time)])

\* faulty variant (C30 must reject it): the weekly rule lets a sixth row through
WeeklyLimitReached_at_six(existing_shifts_count) == existing_shifts_count >= 6

\* CONSTRAINT 1: if existing_shifts_count >= 5
WeeklyLimitReached(existing_shifts_count) == existing_shifts_count >= 5

HttpResponse(status_code, detail) == [status_code |-> status_code, detail |-> detail]

\* create_schedule on the table rows: the table afterwards and the response
CreateSchedule(rows, manager_dept, e, d, start_time, end_time) ==
    LET week_rows == EpWeekRows(rows, e, d)
        all_dates == {r.date : r \in week_rows} \cup {d}
        shift_minutes == ShiftMinutes(start_time, end_time)
        total_daily == RowsMinutes({r \in rows : r.employee_id = e /\ r.date = d})
                            + shift_minutes
        total_weekly == RowsMinutes(week_rows) + shift_minutes
        overtime_required ==
            shift_minutes > 8 * 60 \/ total_daily > 8 * 60 \/ total_weekly > 40 * 60
        schedule == [id |-> EpNextId(rows), department_id |-> employees[e].department_id,
                     employee_id |-> e, role_id |-> 1, shift_id |-> None, date |-> d,
                     start_time |-> start_time, end_time |-> end_time,
                     status |-> "scheduled"]
    IN IF e \notin DOMAIN employees
       THEN [rows |-> rows, response |-> HttpResponse(404, "Employee not found")]
       ELSE IF employees[e].department_id # manager_dept
       THEN [rows |-> rows, response |-> HttpResponse(403, "department")]
       ELSE IF WeeklyLimitReached(Cardinality(week_rows))
       THEN [rows |-> rows, response |-> HttpResponse(400, "more than 5 shifts per week")]
       ELSE IF EpMaxConsecutive(all_dates) > 5
       THEN [rows |-> rows, response |-> HttpResponse(400, "consecutive shifts")]
       ELSE IF overtime_required
       THEN [rows |-> rows, response |-> HttpResponse(200, "requires_overtime_approval")]
       ELSE [rows |-> rows \cup {schedule}, response |-> HttpResponse(200, "scheduled")]

\* update_schedule with a new date on the table rows
UpdateSchedule(rows, manager_dept, schedule_id, new_date) ==
    IF ~\E r \in rows : r.id = schedule_id
    THEN [rows |-> rows, response |-> HttpResponse(404, "Schedule not found")]
    ELSE LET schedule == CHOOSE r \in rows : r.id = schedule_id
             existing_week_schedules ==
                 {r \in EpWeekRows(rows, schedule.employee_id, new_date) : r.id # schedule_id}
             all_dates == {r.date : r \in existing_week_schedules} \cup {new_date}
         IN IF schedule.department_id # manager_dept
            THEN [rows |-> rows, response |-> HttpResponse(403, "department")]
            ELSE IF EpMaxConsecutive(all_dates) > 5
            THEN [rows |-> rows, response |-> HttpResponse(400, "consecutive shifts")]
            ELSE [rows |-> (rows \ {schedule}) \cup {[schedule EXCEPT !.date = new_date]},
                  response |-> HttpResponse(200, "updated")]

\* the start and end times of the requests: four hours, and nine hours
ManualWindows == {<<540, 780>>, <<480, 1020>>}

create_schedule ==
    /\ op = "manual_edits"
    /\ \E e \in 1 .. 3, d \in Range(dates), w \in ManualWindows :
         \E out \in {CreateSchedule(db, args.manager_dept, e, d, w[1], w[2])} :
            /\ db' = out.rows
            /\ result' = out.response
    /\ pc' = "create_schedule"
    /\ UNCHANGED <<op, employees, roles, shifts, leave, unavail, dates, args, status>>

update_schedule ==
    /\ op = "manual_edits"
    /\ \E schedule_id \in 1 .. (Cardinality(db) + 1), new_date \in Range(dates) :
         \E out \in {UpdateSchedule(db, args.manager_dept, schedule_id, new_date)} :
            /\ db' = out.rows
            /\ result' = out.response
    /\ pc' = "update_schedule"
    /\ UNCHANGED <<op, employees, roles, shifts, leave, unavail, dates, args, status>>

\* an empty schedule and the dates of one Monday-to-Sunday week; employee 1 is
\* in the manager's department, employee 2 is not.  The weekly rule keeps the
\* table at five rows or fewer, so the requests need no cap.
InitManual ==
    /\ op = "manual_edits"
    /\ pc = "idle"
    /\ dates = DateRange(0, DaysPerWeek)
    /\ employees = (1 :> [department_id |-> 1]) @@ (2 :> [department_id |-> 2])
    /\ roles = <<>>
    /\ shifts = <<>>
    /\ leave = {}
    /\ unavail = {}
    /\ args = [manager_dept |-> 1]
    /\ status = "NONE"
    /\ db = {}
    /\ result = HttpResponse(0, "")

SpecManual == InitManual /\ [][create_schedule \/ update_schedule]_vars

(***************************************************************************)
(* Concurrent POST /schedules requests.  Every request runs create_schedule *)
(* on a database session of its own (database.py get_db); the handler is a *)
(* coroutine, so the requests interleave at its awaits.  A step is one     *)
(* query, which sees the rows committed so far, and the code up to the     *)
(* next await.  pc, args and result are functions of the request; result   *)
(* holds the request's local variables and, at the end, its response.      *)
(***************************************************************************)
ConcurrentRequests == 2

Requests == 1 .. ConcurrentRequests

Finish(i, response) ==
    /\ result' = [result EXCEPT ![i].response = response]
    /\ pc' = [pc EXCEPT ![i] = "done"]

\* the employee lookup, the department check and the week_count query
create_schedule_count(i) ==
    /\ op = "concurrent_creates"
    /\ pc[i] = "start"
    /\ LET e == args[i].employee_id
           existing_shifts_count == Cardinality(EpWeekRows(db, e, args[i].date))
       IN IF e \notin DOMAIN employees
          THEN Finish(i, HttpResponse(404, "Employee not found"))
          ELSE IF employees[e].department_id # args[i].manager_dept
          THEN Finish(i, HttpResponse(403, "department"))
          ELSE IF WeeklyLimitReached(existing_shifts_count)
          THEN Finish(i, HttpResponse(400, "more than 5 shifts per week"))
          ELSE /\ pc' = [pc EXCEPT ![i] = "consecutive"]
               /\ result' = result
    /\ UNCHANGED <<op, employees, roles, shifts, leave, unavail, dates, args, status, db>>

\* the week_schedules_check query and the longest run
create_schedule_consecutive(i) ==
    /\ op = "concurrent_creates"
    /\ pc[i] = "consecutive"
    /\ LET all_dates == {r.date : r \in EpWeekRows(db, args[i].employee_id, args[i].date)}
                            \cup {args[i].date}
       IN IF EpMaxConsecutive(all_dates) > 5
          THEN Finish(i, HttpResponse(400, "consecutive shifts"))
          ELSE /\ pc' = [pc EXCEPT ![i] = "daily"]
               /\ result' = result
    /\ UNCHANGED <<op, employees, roles, shifts, leave, unavail, dates, args, status, db>>

\* the query for the rows of the day: total_daily_hours
create_schedule_daily(i) ==
    /\ op = "concurrent_creates"
    /\ pc[i] = "daily"
    /\ result' = [result EXCEPT ![i].total_daily =
                    RowsMinutes({r \in db : /\ r.employee_id = args[i].employee_id
                                            /\ r.date = args[i].date})
                        + ShiftMinutes(args[i].start_time, args[i].end_time)]
    /\ pc' = [pc EXCEPT ![i] = "weekly"]
    /\ UNCHANGED <<op, employees, roles, shifts, leave, unavail, dates, args, status, db>>

\* the query for the rows of the week: total_weekly_hours, and the overtime answer
create_schedule_weekly(i) ==
    /\ op = "concurrent_creates"
    /\ pc[i] = "weekly"
    /\ LET shift_minutes == ShiftMinutes(args[i].start_time, args[i].end_time)
           total_weekly ==
               RowsMinutes(EpWeekRows(db, args[i].employee_id, args[i].date)) + shift_minutes
           overtime_required == \/ shift_minutes > 8 * 60
                                \/ result[i].total_daily > 8 * 60
                                \/ total_weekly > 40 * 60
       IN IF overtime_required
          THEN Finish(i, HttpResponse(200, "requires_overtime_approval"))
          ELSE /\ pc' = [pc EXCEPT ![i] = "commit"]
               /\ result' = result
    /\ UNCHANGED <<op, employees, roles, shifts, leave, unavail, dates, args, status, db>>

\* db.add(schedule) and db.commit()
create_schedule_commit(i) ==
    /\ op = "concurrent_creates"
    /\ pc[i] = "commit"
    /\ db' = db \cup {[id |-> EpNextId(db),
                        department_id |-> employees[args[i].employee_id].department_id,
                        employee_id |-> args[i].employee_id, role_id |-> 1,
                        shift_id |-> None, date |-> args[i].date,
                        start_time |-> args[i].start_time, end_time |-> args[i].end_time,
                        status |-> "scheduled"]}
    /\ Finish(i, HttpResponse(200, "scheduled"))
    /\ UNCHANGED <<op, employees, roles, shifts, leave, unavail, dates, args, status>>

\* the table after create_schedule has put employee 1 on the first k days of
\* the week, one request after the other
RowsOfEarlierRequests(k) ==
    {[id |-> d + 1, department_id |-> 1, employee_id |-> 1, role_id |-> 1,
      shift_id |-> None, date |-> d, start_time |-> 540, end_time |-> 780,
      status |-> "scheduled"] : d \in 0 .. (k - 1)}

\* requests for employee 1 that have all arrived and not yet run
InitConcurrent ==
    /\ op = "concurrent_creates"
    /\ pc = [i \in Requests |-> "start"]
    /\ dates = DateRange(0, DaysPerWeek)
    /\ employees = (1 :> [department_id |-> 1]) @@ (2 :> [department_id |-> 2])
    /\ roles = <<>>
    /\ shifts = <<>>
    /\ leave = {}
    /\ unavail = {}
    /\ args \in [Requests -> {[manager_dept |-> 1, employee_id |-> 1, date |-> d,
                               start_time |-> w[1], end_time |-> w[2]] :
                                    d \in Range(dates), w \in ManualWindows}]
    /\ status = "NONE"
    /\ \E k \in 0 .. 4 : db = RowsOfEarlierRequests(k)
    /\ result = [i \in Requests |-> [total_daily |-> 0, response |-> HttpResponse(0, "")]]

SpecConcurrent ==
    InitConcurrent
        /\ [][\E i \in Requests : \/ create_schedule_count(i)
                                   \/ create_schedule_consecutive(i)
                                   \/ create_schedule_daily(i)
                                   \/ create_schedule_weekly(i)
                                   \/ create_schedule_commit(i)]_vars

(***************************************************************************)
(* Claims                                                                  *)
(***************************************************************************)
\* the call is one of the two solver-backed generators and returned a schedule
SolverSucceeded(which) == op = which /\ pc = "done" /\ result.has_schedule

\* the rows a /schedules/generate call created
EpCreatedRows == {r \in db : r.id \notin {x.id : x \in ExistingRows}}

\* the slots of an employee in a solver schedule, as dates
SlotDates(e) == {a.date : a \in {x \in result.schedule : x.employee_id = e}}

\* C1: in every successful result of generate, generate_schedule and
\* /schedules/generate, no employee has two assignments on the same date.
C1_NoDoubleBooking ==
    /\ (SolverSucceeded("generate") \/ SolverSucceeded("generate_schedule")) =>
            \A a, b \in result.schedule :
                (a.employee_id = b.employee_id /\ a.date = b.date) => a = b
    /\ (op = "generate_schedules" /\ pc = "done") =>
            \A a, b \in db :
                (a.employee_id = b.employee_id /\ a.date = b.date) => a = b

\* a week schedule of ShiftSchedulerV5 in which an employee with two shifts to
\* choose from on Monday works exactly one of them
C1_Witness ==
    /\ SolverSucceeded("generate_schedule")
    /\ \E a \in result.schedule :
          /\ a.date = 0
          /\ Cardinality({i \in DOMAIN shifts :
                            /\ shifts[i].role_id = employees[a.employee_id].role_id
                            /\ 0 \in shifts[i].enabled}) = 2

\* C2: no working assignment (a solver slot, or a 'scheduled' row created by
\* /schedules/generate) has a date inside an approved leave interval of its employee.
C2_LeaveIsAbsolute ==
    /\ (SolverSucceeded("generate") \/ SolverSucceeded("generate_schedule")) =>
            \A a \in result.schedule : <<a.employee_id, a.date>> \notin leave
    /\ (op = "generate_schedules" /\ pc = "done") =>
            \A r \in EpCreatedRows :
                r.status = "scheduled" => <<r.employee_id, r.date>> \notin leave

\* an employee with approved leave in the horizon works on other dates of it
C2_Witness ==
    /\ SolverSucceeded("generate")
    /\ \E a \in result.schedule : \E d \in Range(dates) : <<a.employee_id, d>> \in leave

\* C3: in every successful result of ShiftScheduleGenerator.generate an employee
\* is assigned on at most 5 of any 6 consecutive dates of the horizon.
C3_ConsecutiveCap ==
    SolverSucceeded("generate") =>
        \A e \in EmpIds : \A i \in DOMAIN dates :
            (i + 5 \in DOMAIN dates) =>
                Cardinality({d \in SlotDates(e) : d >= dates[i] /\ d <= dates[i] + 5}) <= 5

\* an employee whose weekly target is 7, free and schedulable on all six dates
\* of the first window, works on exactly 5 of them
C3_Witness ==
    /\ SolverSucceeded("generate")
    /\ \E e \in EmpIds :
          /\ employees[e].shifts_per_week = 7
          /\ \A d \in 0 .. 5 : <<e, d>> \notin leave
          /\ Cardinality({d \in SlotDates(e) : d <= 5}) = 5

\* C5 as claimed: an employee is assigned at most
\* floor(shifts_per_week * availableDays / 7) slots, availableDays being the
\* number of horizon dates on which the employee is not on leave.
C5_QuotaFollowsAvailableDays ==
    SolverSucceeded("generate") =>
        \A e \in EmpIds :
            Cardinality(SlotDates(e)) <=
                (employees[e].shifts_per_week
                    * Cardinality({d \in Range(dates) : <<e, d>> \notin leave})) \div 7

\* a call of either _round_allocations returned
Rounded == op \in {"_round_allocations", "V5._round_allocations"} /\ pc = "done"

Validated == op = "validate_shift_assignment" /\ pc = "done"

\* the employee of the call has an entry in args.schedule on day d
ValAssignedOn(d) ==
    \E a \in args.schedule : a.emp = args.employee_id /\ a.date.day = d

\* C6 as claimed: with Monday to Friday assigned and the employee not on leave,
\* validating an assignment on Saturday is invalid with the consecutive-limit
\* message.
C6_SixthDayRejected ==
    (/\ Validated
     /\ args.date = DateStr(5, TRUE)
     /\ \A d \in 0 .. 4 : ValAssignedOn(d)
     /\ \A k \in args.leave_requests : k.emp # args.employee_id) =>
        /\ result.raised = ""
        /\ ~result.valid
        /\ result.messages = <<ValConsecutive>>

\* the hard checks of validate_assignment pass for the proposed assignment
ValHardChecksPass ==
    /\ Key(args.employee_id, args.date) \notin args.leave_requests
    /\ _check_consecutive_shift_limit(args.employee_id, args.date, args.schedule)
    /\ RoleIndex(args.role_id) # None =>
            _check_weekend_restriction(roles[RoleIndex(args.role_id)], args.date)

\* C7: a proposed assignment that passes every hard check is valid, with exactly
\* the one unavailability warning when the employee is flagged unavailable on
\* that date and with no message otherwise.
C7_UnavailabilityOnlyWarns ==
    (Validated /\ result.raised = "" /\ ValHardChecksPass) =>
        /\ result.valid
        /\ result.messages =
              (IF Key(args.employee_id, args.date) \in args.unavailability
               THEN <<ValUnavailable>> ELSE <<>>)

\* a weekday assignment of an employee flagged unavailable on that day returns
\* valid with the warning
C7_Witness ==
    /\ Validated
    /\ args.date = DateStr(2, TRUE)
    /\ Key(args.employee_id, args.date) \in args.unavailability
    /\ RoleIndex(args.role_id) # None
    /\ ValHardChecksPass
    /\ result = Returned(TRUE, <<ValUnavailable>>)

\* a call of the reassigner returned or raised; the claims below are about the
\* calls that returned
Reassigned == op = "_handle_unavailability_reassignments" /\ pc = "done"

\* what the three dicts say about employee e on day d, however the day is written
ReFlagged(e, d) == \E k \in args.unavailability : k.emp = e /\ k.date.day = d
ReOnLeave(e, d) == \E k \in args.leave_requests : k.emp = e /\ k.date.day = d
ReAssignedOn(schedule, e, d) == \E a \in schedule : a.emp = e /\ a.date.day = d

\* employee e has an assignment on day d, which is flagged unavailable
ReConflict(e, d) == ReFlagged(e, d) /\ ReAssignedOn(args.schedule, e, d)

\* the later days of the week on which e is not on leave, not flagged and not assigned
ReQualifying(e, d) ==
    {x \in Range(dates) :
        x > d /\ ~ReOnLeave(e, x) /\ ~ReFlagged(e, x) /\ ~ReAssignedOn(args.schedule, e, x)}

\* the reassignments the call reports for employee e's assignment on day d
ReReported(e, d) ==
    {m \in result.feedback : m.kind = "Reassigned" /\ m.emp = e /\ m.from.day = d}

\* C8 as claimed: the replacement of a flagged assignment is the first later day
\* of the week on which the employee is not on leave, not flagged unavailable
\* and not assigned.
C8_FirstLaterFreeDay ==
    (Reassigned /\ result.raised = "") =>
        \A e \in EmpIds : \A d \in Range(dates) :
            ReConflict(e, d) =>
                /\ \A m \in ReReported(e, d) :
                      /\ m.to.day \in ReQualifying(e, d)
                      /\ \A x \in ReQualifying(e, d) : m.to.day <= x
                /\ ReQualifying(e, d) # {} => ReReported(e, d) # {}

\* C9 as claimed: after a reassignment from D to D' the schedule handed back has
\* the employee off D and on D' with the same role, and every other employee's
\* assignments as before.
C9_ScheduleMoved ==
    (Reassigned /\ result.raised = "") =>
        \A m \in result.feedback :
            m.kind = "Reassigned" =>
                /\ ~ReAssignedOn(result.schedule, m.emp, m.from.day)
                /\ \A a \in args.schedule :
                      (a.emp = m.emp /\ a.date = m.from) =>
                            [a EXCEPT !.date = m.to] \in result.schedule
                /\ \A a \in args.schedule : a.emp # m.emp => a \in result.schedule

\* C10 as claimed: when no day of the week qualifies, nothing is reassigned and
\* the unresolved conflict is reported in what the call returns.
C10_UnresolvedReported ==
    (Reassigned /\ result.raised = "") =>
        \A e \in EmpIds : \A d \in Range(dates) :
            (ReConflict(e, d) /\ ReQualifying(e, d) = {}) =>
                /\ ReReported(e, d) = {}
                /\ \E m \in result.feedback :
                      m.kind = "Unresolved" /\ m.emp = e /\ m.date.day = d

\* the role dict the proposed role id names; only read when RoleIndex finds one
ValProposedRole == roles[RoleIndex(args.role_id)]

\* the hard rules as the specification words them, for the proposal of the call:
\* each is TRUE when the proposal breaks the rule
ValBreaksLeave == Key(args.employee_id, args.date) \in args.leave_requests

ValBreaksConsecutive ==
    \E a \in Range(dates), b \in Range(dates) :
        /\ a <= args.date.day /\ args.date.day <= b
        /\ b - a + 1 > 5
        /\ \A x \in a .. b : x = args.date.day \/ ValAssignedOn(x)

ValBreaksWeekend ==
    /\ Weekday(args.date.day) >= 5
    /\ ~(RoleIndex(args.role_id) # None /\ ValProposedRole.weekend_required)

\* the length of a role's work window, an end before the start being past midnight
ValWindowMinutes(role) ==
    IF role.end_time < role.start_time
    THEN role.end_time + 1440 - role.start_time
    ELSE role.end_time - role.start_time

ValBreaksBreak ==
    /\ RoleIndex(args.role_id) # None
    /\ ValWindowMinutes(ValProposedRole) > 240
    /\ ValProposedRole.break_minutes = 0

\* the result is invalid with one message, a violation other than the three the
\* leave, consecutive and weekend rules give and other than the warning
ValBreakViolationReturned ==
    /\ ~result.valid
    /\ Len(result.messages) = 1
    /\ result.messages[1] \notin {ValLeave, ValConsecutive, ValWeekend, ValUnavailable}

\* C11 as claimed: a proposal that breaks a hard rule is invalid with exactly one
\* violation, that of the first broken rule in the order leave, consecutive cap,
\* weekend, break time.
C11_FirstBrokenRuleReported ==
    (Validated /\ result.raised = "") =>
        IF ValBreaksLeave THEN result = Returned(FALSE, <<ValLeave>>)
        ELSE IF ValBreaksConsecutive THEN result = Returned(FALSE, <<ValConsecutive>>)
        ELSE IF ValBreaksWeekend THEN result = Returned(FALSE, <<ValWeekend>>)
        ELSE IF ValBreaksBreak THEN ValBreakViolationReturned
        ELSE TRUE

\* C12 as claimed: a valid result for a Saturday or Sunday means the proposed role
\* is in the role list and has weekend_required set.
C12_WeekendNeedsFlaggedRole ==
    (Validated /\ result.raised = "" /\ result.valid /\ Weekday(args.date.day) >= 5) =>
        /\ RoleIndex(args.role_id) # None
        /\ ValProposedRole.weekend_required

\* C13 as claimed: a proposal that passes the leave, consecutive and weekend rules
\* and whose role works more than 4 hours with break_minutes = 0 is rejected with
\* the break-time violation; a window of exactly 4 hours is not.
C13_MissingBreakRejected ==
    (/\ Validated /\ result.raised = ""
     /\ ~ValBreaksLeave /\ ~ValBreaksConsecutive /\ ~ValBreaksWeekend
     /\ RoleIndex(args.role_id) # None
     /\ ValProposedRole.break_minutes = 0) =>
        IF ValWindowMinutes(ValProposedRole) > 240
        THEN ValBreakViolationReturned
        ELSE result.valid

\* the capacity the specification gives a role: the weekly targets of its
\* employees times ceil(horizonDays / 7), minus their leave days, floored at zero
ExpectedCapacity(role_id) ==
    LET counted == {e \in EmpIds : employees[e].role_id = role_id}
        S == SumOver(counted,
                [e \in EmpIds |-> employees[e].shifts_per_week * ((Len(dates) + 6) \div 7)])
        L == SumOver(counted,
                [e \in EmpIds |-> Cardinality({d \in Range(dates) : <<e, d>> \in leave})])
    IN Max(0, S - L)

\* C14 as claimed: the capacity each generator computes for a role is
\* max(0, S - L) with S counting ceil(horizonDays / 7) weeks, one week for a
\* horizon of exactly 7 days.
C14_CapacityFormula ==
    /\ (op = "generate" /\ pc = "done") =>
            \A i \in DOMAIN roles : GenRoleCapacity(roles[i].id) = ExpectedCapacity(roles[i].id)
    /\ (op = "generate_schedule" /\ pc = "done") =>
            \A i \in DOMAIN roles : V5RoleCapacity(roles[i].id) = ExpectedCapacity(roles[i].id)

\* the employee has the role or has none (flexible)
EligibleFor(e, role_id) == employees[e].role_id = role_id \/ employees[e].role_id = None

\* C15 as claimed: for every shift (role) and date it is open on, the employees
\* generation may assign are exactly those with the shift's role and those with
\* no role: nobody with another role, and every flexible employee.
C15_EligibleEmployees ==
    /\ (op = "generate" /\ pc = "done") =>
            \A e \in EmpIds : \A d \in Range(dates) : \A i \in DOMAIN roles :
                (~_is_on_leave(e, d) /\ _can_work_role_on_day(roles[i].id, d)) =>
                    ([emp |-> e, date |-> d, role_id |-> roles[i].id] \in GenVariables
                        <=> EligibleFor(e, roles[i].id))
    /\ (op = "generate_schedule" /\ pc = "done") =>
            \A e \in EmpIds : \A k \in DOMAIN dates : \A i \in DOMAIN shifts :
                (/\ ~_is_on_leave(e, dates[k]) /\ ~_is_unavailable(e, dates[k])
                 /\ V5DayName(k) \in shifts[i].enabled) =>
                    ([emp |-> e, date |-> dates[k], shift_id |-> shifts[i].id] \in V5Variables
                        <=> EligibleFor(e, shifts[i].role_id))
    /\ (op = "generate_schedules" /\ pc = "done") =>
            /\ \A e \in EmpIds : \A i \in DOMAIN shifts :
                    EpEligible(e, shifts[i]) <=> EligibleFor(e, shifts[i].role_id)
            /\ \A r \in EpCreatedRows :
                    r.status = "scheduled" => EligibleFor(r.employee_id, r.role_id)

\* the 'scheduled' rows a /schedules/generate call created for a shift on a date
EpAssignedTo(shift_id, d) ==
    {r \in EpCreatedRows : r.status = "scheduled" /\ r.shift_id = shift_id /\ r.date = d}

\* C16 as claimed: after /schedules/generate, the employees given a 'scheduled'
\* row for a shift on a date number at most the shift's max_emp, whatever value
\* max_emp is configured to.
C16_MaxEmpRespected ==
    (op = "generate_schedules" /\ pc = "done") =>
        \A d \in Range(dates) : \A i \in DOMAIN shifts :
            Cardinality(EpAssignedTo(shifts[i].id, d)) <= shifts[i].max_emp

\* a call of one of the two solver-backed generators returned
SolverReturned == op \in {"generate", "generate_schedule"} /\ pc = "done"

\* C17: when the backend reports OPTIMAL or FEASIBLE the generator returns a
\* schedule and no error; on every other status it returns an error message and
\* no schedule at all.  Exactly one of the two is returned.
C17_ScheduleOrError ==
    SolverReturned =>
        /\ status \in {"OPTIMAL", "FEASIBLE"} =>
                result.has_schedule /\ ~result.has_error /\ result.error = ""
        /\ status \notin {"OPTIMAL", "FEASIBLE"} =>
                /\ ~result.has_schedule /\ result.schedule = {}
                /\ result.has_error /\ result.error # ""
        /\ result.has_schedule # result.has_error

\* the week of ShiftSchedulerV5 has no feasible assignment and the backend says so
C17_Witness ==
    /\ op = "generate_schedule" /\ pc = "done"
    /\ status = "INFEASIBLE"
    /\ result = Failure("Cannot generate schedule. Please review constraints.")

\* the employees a successful generate result assigns to a role on a date
GenAssignedTo(role_id, d) ==
    {a.employee_id : a \in {x \in result.schedule : x.role_id = role_id /\ x.date = d}}

\* the employees of a role that are not on leave on a date
GenRoleFree(role_id, d) ==
    {e \in EmpIds : employees[e].role_id = role_id /\ <<e, d>> \notin leave}

\* C18: in every successful result of generate, for every date and role with a
\* nonzero per-day allocation, at least the allocation, which is
\* min(required_count, the role's employees not on leave that day), is assigned.
C18_CoverageMet ==
    SolverSucceeded("generate") =>
        \A d \in Range(dates) : \A i \in DOMAIN roles :
            GenDayRoleAllocation(d, roles[i].id) > 0 =>
                /\ GenDayRoleAllocation(d, roles[i].id)
                      = Min(roles[i].required_count, Cardinality(GenRoleFree(roles[i].id, d)))
                /\ Cardinality(GenAssignedTo(roles[i].id, d))
                      >= Min(roles[i].required_count, Cardinality(GenRoleFree(roles[i].id, d)))

\* a role with required_count 2 and two employees gets both of them on a date
C18_Witness ==
    /\ SolverSucceeded("generate")
    /\ \E d \in Range(dates) : \E i \in DOMAIN roles :
          /\ GenDayRoleAllocation(d, roles[i].id) = 2
          /\ Cardinality(GenAssignedTo(roles[i].id, d)) = 2

\* the decision variables a successful generate result has set
GenSolution ==
    {[emp |-> a.employee_id, date |-> a.date, role_id |-> a.role_id] : a \in result.schedule}

\* the assignments that differ from the result in one slot of one employee, moved
\* from a date flagged unavailable to a date that is not, and satisfy all constraints
GenBetterMoves ==
    {moved \in {(GenSolution \ {v}) \cup {w} :
                    v \in {x \in GenSolution : _is_unavailable(x.emp, x.date)},
                    w \in {x \in GenVariables \ GenSolution : ~_is_unavailable(x.emp, x.date)}} :
        /\ \E v \in GenSolution \ moved : \E w \in moved \ GenSolution : v.emp = w.emp
        /\ GenConstraints(GenVariables, GenDayRoleAllocations, moved)}

\* C19: an assignment with the same number of slots and fewer of them on
\* unavailable dates has a strictly larger objective; so a result reported
\* OPTIMAL has no slot on an unavailable date that could be moved to an available
\* date of the same employee within the constraints.
C19_PrefersAvailableDays ==
    SolverSucceeded("generate") =>
        /\ \A moved \in GenBetterMoves :
                /\ Cardinality(moved) = Cardinality(GenSolution)
                /\ GenObjective(moved) > GenObjective(GenSolution)
        /\ status = "OPTIMAL" => GenBetterMoves = {}

\* an OPTIMAL result leaves the employee off the unavailable date although a
\* schedule with one of the employee's slots on that date satisfies all constraints
C19_Witness ==
    /\ SolverSucceeded("generate")
    /\ status = "OPTIMAL"
    /\ \E w \in GenVariables \ GenSolution :
          /\ _is_unavailable(w.emp, w.date)
          /\ \E v \in GenSolution :
                /\ v.emp = w.emp
                /\ GenConstraints(GenVariables, GenDayRoleAllocations,
                                  (GenSolution \ {v}) \cup {w})

\* the shift a row of /schedules/generate belongs to
EpShiftOf(r) == shifts[CHOOSE i \in DOMAIN shifts : shifts[i].id = r.shift_id]

\* C20: no result of generate or /schedules/generate has an assignment of a role
\* or shift on a date whose weekday its configuration disables, and the per-day
\* allocation of a role on such a weekday is exactly 0.
C20_DisabledWeekdaysStayEmpty ==
    /\ SolverSucceeded("generate") =>
            \A a \in result.schedule :
                Weekday(a.date) \in roles[RoleIndex(a.role_id)].enabled
    /\ (op = "generate" /\ pc = "done") =>
            \A d \in Range(dates) : \A i \in DOMAIN roles :
                Weekday(d) \notin roles[i].enabled => GenDayRoleAllocation(d, roles[i].id) = 0
    /\ (op = "generate_schedules" /\ pc = "done") =>
            \A r \in EpCreatedRows :
                EpShiftOf(r).has_config => Weekday(r.date) \in EpShiftOf(r).enabled

\* a role enabled Monday to Friday only is scheduled on weekdays and has its
\* employee free on both weekend dates
C20_Witness ==
    /\ SolverSucceeded("generate")
    /\ roles[1].enabled = MonToFri
    /\ \E a \in result.schedule : a.role_id = roles[1].id
    /\ \E e \in EmpIds :
          /\ employees[e].role_id = roles[1].id
          /\ \A d \in {5, 6} : <<e, d>> \notin leave /\ d \notin SlotDates(e)

\* the floor and the fractional remainder (over args.den) of the share of key i,
\* the shortfall of the floors against the target, and the keys that got a unit
RoundFloor(i) == args.raw[i] \div args.den
RoundRemainder(i) == args.raw[i] % args.den
RoundShortfall == args.target_total - SeqSum([i \in DOMAIN args.raw |-> RoundFloor(i)])
RoundUnits == {i \in DOMAIN args.raw : result[i] = RoundFloor(i) + 1}

\* every key has its floor or its floor plus one, and the keys with a unit come
\* before the keys without one in descending order of remainder, earlier keys
\* first among equal remainders
RoundLargestFirst ==
    /\ DOMAIN result = DOMAIN args.raw
    /\ \A i \in DOMAIN args.raw : result[i] \in {RoundFloor(i), RoundFloor(i) + 1}
    /\ \A i \in RoundUnits : \A j \in DOMAIN args.raw \ RoundUnits :
            \/ RoundRemainder(i) > RoundRemainder(j)
            \/ (RoundRemainder(i) = RoundRemainder(j) /\ i < j)

C23_InputsLeftAlone ==
    [][generate_schedules => /\ shifts' = shifts
                             /\ employees' = employees
                             /\ roles' = roles
                             /\ leave' = leave
                             /\ unavail' = unavail]_vars

\* the length of a row's shift, an end time before the start time meaning the
\* next day
EpWrappedMinutes(r) ==
    IF r.end_time < r.start_time THEN r.end_time + MinutesPerDay - r.start_time
    ELSE r.end_time - r.start_time

\* the worked minutes of the scheduled rows of employee e on the dates in ds
EpWorkedMinutes(e, ds) ==
    LET rs == {r \in db : r.employee_id = e /\ r.status = "scheduled" /\ r.date \in ds}
    IN SumOver(rs, [r \in rs |-> EpWrappedMinutes(r) - EpBreakMinutes(r.role_id)])

\* C24: after /schedules/generate the worked hours of every employee stay within
\* weekly_hours in every Monday-to-Sunday week and within daily_max_hours on
\* every date, an overnight shift counting its length past midnight.
C24_HoursWithinCaps ==
    (op = "generate_schedules" /\ pc = "done" /\ result.success) =>
        \A e \in DOMAIN employees : \A d \in Range(dates) :
            /\ EpWorkedMinutes(e, {x \in Range(dates) : x - Weekday(x) = d - Weekday(d)})
                    <= employees[e].weekly_hours * 60
            /\ EpWorkedMinutes(e, {d})
                    <= (IF employees[e].daily_max_hours = None THEN 8
                        ELSE employees[e].daily_max_hours) * 60

\* the length of the part of [a, b] inside [c, d]
NightOverlap(a, b, c, d) == Max(0, Min(b, d) - Max(a, c))

\* the minutes of the worked interval inside the night period 22:00 to 06:00:
\* the night that ends today at 06:00, tonight's, and tomorrow night's
NightMinutes(in_time, out_time) ==
    LET out == IF out_time <= in_time THEN MinutesPerDay + out_time ELSE out_time
    IN NightOverlap(in_time, out, NightStart - MinutesPerDay, NightEnd)
        + NightOverlap(in_time, out, NightStart, MinutesPerDay + NightEnd)
        + NightOverlap(in_time, out, MinutesPerDay + NightStart, 2 * MinutesPerDay + NightEnd)

\* C25: calculate_night_work_hours returns the length of the part of the worked
\* interval that lies inside the night period 22:00 to 06:00.
C25_NightHours ==
    (op = "calculate_night_work_hours" /\ pc = "done") =>
        result = RoundHours(NightMinutes(args.in_time, args.out_time))

\* the five cases of test_night_work.py
C25_TestCases ==
    /\ calculate_night_work_hours(540, 1020) = 0
    /\ calculate_night_work_hours(1260, 1380) = 100
    /\ calculate_night_work_hours(1320, 360) = 800
    /\ calculate_night_work_hours(1380, 300) = 600
    /\ calculate_night_work_hours(1080, 1320) = 0

\* C26: after any sequence of create_schedule and update_schedule requests from
\* an empty schedule no employee has two Schedule rows on the same date.
C26_OneRowPerDate ==
    op = "manual_edits" =>
        \A r1 \in db, r2 \in db :
            (r1.employee_id = r2.employee_id /\ r1.date = r2.date) => r1 = r2

\* C27: after /schedules/generate no employee has scheduled rows on all 6 dates
\* of a window of 6 consecutive calendar dates, also when the horizon spans
\* more than one Monday-to-Sunday week.
C27_NoSixInARow ==
    (op = "generate_schedules" /\ pc = "done" /\ result.success) =>
        \A e \in DOMAIN employees : \A a \in Range(dates) :
            \E k \in 0 .. (WindowLen - 1) :
                ~\E r \in db : /\ r.employee_id = e
                               /\ r.status = "scheduled"
                               /\ r.date = a + k

\* C28: when rows of the manager's department exist inside [start_date, end_date]
\* and regenerate is false, /schedules/generate leaves the table as it is and
\* answers success = false with requires_confirmation = true; a call removes
\* rows only with regenerate = true, and only rows of that department in the range.
C28_ConfirmBeforeReplace ==
    [][generate_schedules =>
        LET in_range == {r \in db : /\ r.department_id = args.department_id
                                    /\ r.date >= args.start_date
                                    /\ r.date <= args.end_date}
        IN /\ (in_range # {} /\ ~args.regenerate) =>
                    /\ db' = db
                    /\ ~result'.success
                    /\ result'.requires_confirmation
           /\ (db \ db') \subseteq in_range
           /\ (db \ db' # {}) => args.regenerate]_vars

C28_Witness ==
    /\ op = "generate_schedules" /\ pc = "done"
    /\ ~args.regenerate
    /\ db = {ExistingRow(101, 1, 1, 1)}
    /\ ~result.success /\ result.requires_confirmation

\* C29: however concurrent create_schedule requests for one employee interleave,
\* the employee has at most 5 Schedule rows in a Monday-to-Sunday week.
C29_WeeklyLimitUnderConcurrency ==
    op = "concurrent_creates" =>
        \A e \in DOMAIN employees : \A d \in Range(dates) :
            Cardinality(EpWeekRows(db, e, d)) <= 5

\* C30: run one request after the other, create_schedule never answers with
\* the 'consecutive shifts' rejection: where the weekly-count check passes the
\* longest run is at most 5, and a request that finds 5 rows in the week is
\* rejected by the weekly-count check.
C30_ConsecutiveRejectionUnreachable ==
    (op = "manual_edits" /\ pc = "create_schedule") =>
        /\ result # HttpResponse(400, "consecutive shifts")
        /\ \A d \in Range(dates) :
                ~WeeklyLimitReached(Cardinality(EpWeekRows(db, 1, d))) =>
                    EpMaxConsecutive({r.date : r \in EpWeekRows(db, 1, d)} \cup {d}) <= 5

\* a sixth shift in a week of five rows on five dates in a row is turned down
\* by the weekly-count check
C30_Witness ==
    /\ op = "manual_edits" /\ pc = "create_schedule"
    /\ result = HttpResponse(400, "more than 5 shifts per week")
    /\ {r.date : r \in db} = 0 .. 4
====
